---- MODULE Spec2Model ----
(***************************************************************************)
(* The constraint propagators of src/propagators.py (prop_BT, prop_FC,     *)
(* prop_GAC) run against CSPs built as in src/models.py.  The data model   *)
(* the propagators import (cspbase: Variable, Constraint, CSP) is not part *)
(* of the sources at hand; it is modelled from its specified contract.     *)
(***************************************************************************)
EXTENDS Integers, Sequences, FiniteSets, TLC

\* ------------------------------------------------------------------ bounds
\* Largest value of the initial domains 1..MaxVal of the hand-built CSPs.
MaxVal == 2

\* newVar=None / get_assigned_value() of an unassigned variable.
None == 0

\* ----------------------------------------------------------- list helpers
RECURSIVE SortedSeq(_)
\* The values of a set in ascending order: the order of an initial domain.
SortedSeq(S) ==
    IF S = {} THEN << >>
    ELSE LET m == CHOOSE x \in S : \A y \in S : x <= y
         IN  <<m>> \o SortedSeq(S \ {m})

RECURSIVE Concat(_)
\* The concatenation of a sequence of sequences.
Concat(ss) == IF ss = << >> THEN << >> ELSE Head(ss) \o Concat(Tail(ss))

Range(s) == {s[i] : i \in 1..Len(s)}

RECURSIVE Perms(_)
\* itertools.permutations: every ordering of the set S, as tuples.
Perms(S) ==
    IF S = {} THEN {<< >>}
    ELSE UNION {{<<x>> \o p : p \in Perms(S \ {x})} : x \in S}

\* ------------------------------------------------------------------ models
\* A constraint: name, ordered scope (variable ids) and satisfying tuples.
Con(name, scope, sat) == [name |-> name, scope |-> scope, sat |-> sat]

\* init_board: n*n variables, var_array[i][j] (0-based) with domain 1..n.
Cell(n, i, j) == i * n + j + 1

init_board(n) == [v \in 1..(n * n) |-> 1..n]

\* _expand(csp, x, y, board, n, sat): the constraints from cell (x, y) down
\* its column, then along its row; both loops build the name from
\* str(x) + str(y) + str(i) + str(y).
_expand(x, y, n, sat) ==
    [k \in 1..(n - 1 - x) |->
        Con(<<x, y, x + k, y>>, <<Cell(n, x, y), Cell(n, x + k, y)>>, sat)]
    \o
    [k \in 1..(n - 1 - y) |->
        Con(<<x, y, y + k, y>>, <<Cell(n, x, y), Cell(n, x, y + k)>>, sat)]

binary_constraint_generator(n, sat) ==
    Concat([p \in 1..(n * n) |-> _expand((p - 1) \div n, (p - 1) % n, n, sat)])

warehouse_binary_ne_grid(n) ==
    [nvars |-> n * n,
     dom   |-> init_board(n),
     cons  |-> binary_constraint_generator(n,
                  {<<x, y>> : x \in 1..n, y \in 1..n} \ {<<x, x>> : x \in 1..n})]

n_ary_constraint_generator(n, sat) ==
    [r \in 1..n |-> Con(<<"row", r - 1>>, [j \in 1..n |-> Cell(n, r - 1, j - 1)], sat)]
    \o
    [c \in 1..n |-> Con(<<"column", c - 1>>, [i \in 1..n |-> Cell(n, i - 1, c - 1)], sat)]

warehouse_nary_ad_grid(n) ==
    [nvars |-> n * n,
     dom   |-> init_board(n),
     cons  |-> n_ary_constraint_generator(n, Perms(1..n))]

\* Hand-built CSPs over the domain 1..MaxVal.
NeqSat == {<<x, y>> \in (1..MaxVal) \X (1..MaxVal) : x # y}

\* A row of three cells, all different, as binary not-equal constraints.
RowCSP ==
    [nvars |-> 3,
     dom   |-> [v \in 1..3 |-> 1..MaxVal],
     cons  |-> << Con(<<"ne", 1, 2>>, <<1, 2>>, NeqSat),
                  Con(<<"ne", 1, 3>>, <<1, 3>>, NeqSat),
                  Con(<<"ne", 2, 3>>, <<2, 3>>, NeqSat) >>]

\* Two variables A = 1, B = 2 whose only satisfying tuple is (1, 2); their
\* domains hold one value more than the tuples use.
PairCSP ==
    [nvars |-> 2,
     dom   |-> [v \in 1..2 |-> 1..(MaxVal + 1)],
     cons  |-> << Con(<<"ab">>, <<1, 2>>, {<<1, 2>>}) >>]

\* Cages in the style of constraint_generator_for_building: a unary "equals
\* 2" cage and a sum cage over (1, 2, 3), plus a binary less-than relation
\* whose scope lists its variables against their creation order.
CageCSP ==
    [nvars |-> 3,
     dom   |-> [v \in 1..3 |-> 1..MaxVal],
     cons  |-> << Con(<<"eq">>, <<1>>, {<<2>>}),
                  Con(<<"sum">>, <<1, 2, 3>>,
                      {t \in (1..MaxVal) \X (1..MaxVal) \X (1..MaxVal) :
                          t[1] + t[2] + t[3] = MaxVal + 2}),
                  Con(<<"lt">>, <<3, 2>>,
                      {t \in (1..MaxVal) \X (1..MaxVal) : t[1] < t[2]}) >>]

CSPS == << warehouse_binary_ne_grid(2), warehouse_nary_ad_grid(2),
           RowCSP, PairCSP, CageCSP >>

\* ------------------------------------------------------------------- state
VARIABLES
    csp,        \* which CSP of CSPS the propagators run on
    cons,       \* CSP: its own list of constraints (ids), in insertion order
    curdom,     \* Variable: current domain, per variable
    asgn,       \* Variable: assigned value, None when unassigned
    prop,       \* the propagator in progress: "none", "BT", "FC", "GAC"
    newVar,     \* the call's newVar argument, None or a variable
    pc,         \* position in the call
    que,        \* prop_FC: lst; prop_GAC: que (sequences of constraint ids)
    curr,       \* the constraint being processed (con / curr), 0 before any
    var,        \* the variable being iterated (var), 0 before any
    vi,         \* prop_GAC: position of var in curr's scope
    pending,    \* the values of var.cur_domain() still to be visited
    vals,       \* prop_FC: the tuple built while var is tentatively assigned
    flag,       \* prop_FC: flag
    prune_lst,  \* the prune list of the call
    result,     \* the returned success flag: "none" until the call returns
    pre,        \* the current domains and assignments when the call began
    again       \* "no" in a first call; in a call that repeats prop_GAC,
                \* whether the call before it "pruned" or came back "clean"

vars == <<csp, cons, curdom, asgn, prop, newVar, pc, que, curr, var, vi, pending,
          vals, flag, prune_lst, result, pre, again>>

\* --------------------------------------------------- cspbase, as specified
TheCSP == CSPS[csp]

Vars == 1..TheCSP.nvars

\* CSP.get_all_cons(): the constraints in the CSP's list.
get_all_cons == cons

get_scope(c) == TheCSP.cons[c].scope

\* CSP.get_cons_with_var(v): from the CSP's mapping of each variable to the
\* constraints whose scope holds it, kept apart from the list of all.
get_cons_with_var(v) ==
    SelectSeq([i \in 1..Len(TheCSP.cons) |-> i],
              LAMBDA c : v \in Range(get_scope(c)))

\* get_all_cons() handing out the CSP's own list, so that what the caller
\* does to the list it got is done to the CSP.
CSP_cons_aliased(nv, cs, q) == IF nv = None THEN q ELSE cs

\* The CSP's list of constraints after a call with newVar nv has changed
\* its worklist to q: get_all_cons() hands out a listing, and the CSP's own
\* list stays as it is.
CSP_cons_after(nv, cs, q) == cs

is_assigned(a, v) == a[v] # None

get_unasgn_vars(a, c) ==
    SelectSeq(get_scope(c), LAMBDA v : ~is_assigned(a, v))

get_n_unasgn(a, c) == Len(get_unasgn_vars(a, c))

\* var.cur_domain(): the current values, in initial-domain order.
cur_domain(d, v) == SortedSeq(d[v])

\* c.check(vals): vals is one of the satisfying tuples.
check(c, t) == t \in TheCSP.cons[c].sat

\* c.has_support(v, val): some satisfying tuple holds val at v's position
\* and, at every other position, the assigned value of an assigned variable
\* or a value of the current domain of an unassigned one.
has_support(d, a, c, v, val) ==
    \E t \in TheCSP.cons[c].sat :
        \A i \in 1..Len(get_scope(c)) :
            LET w == get_scope(c)[i]
            IN  IF w = v THEN t[i] = val
                ELSE IF is_assigned(a, w) THEN t[i] = a[w]
                ELSE t[i] \in d[w]

prune_value(d, v, val) == [d EXCEPT ![v] = @ \ {val}]

restore_value(d, v, val) == [d EXCEPT ![v] = @ \cup {val}]

assign(a, v, val) == [a EXCEPT ![v] = val]

unassign(a, v) == [a EXCEPT ![v] = None]

\* ------------------------------------------------------------------- start
\* A CSP as the search driver hands it to a propagator: every current
\* domain a non-empty part of the initial domain, every assigned variable
\* assigned a value of its current domain.
Init ==
    /\ csp \in 1..Len(CSPS)
    /\ cons = [i \in 1..Len(CSPS[csp].cons) |-> i]
    /\ curdom \in [1..CSPS[csp].nvars -> SUBSET (1..(MaxVal + 1))]
    /\ \A v \in 1..CSPS[csp].nvars :
          curdom[v] # {} /\ curdom[v] \subseteq CSPS[csp].dom[v]
    /\ asgn \in [1..CSPS[csp].nvars -> {None} \cup (1..(MaxVal + 1))]
    /\ \A v \in 1..CSPS[csp].nvars : asgn[v] = None \/ asgn[v] \in curdom[v]
    /\ prop = "none"
    /\ newVar = None
    /\ pc = "idle"
    /\ que = << >>
    /\ curr = 0
    /\ var = 0
    /\ vi = 0
    /\ pending = << >>
    /\ vals = << >>
    /\ flag = FALSE
    /\ prune_lst = << >>
    /\ result = "none"
    /\ pre = [csp |-> csp, cons |-> cons, curdom |-> curdom, asgn |-> asgn]
    /\ again = "no"

\* The arguments a propagator is called with: None, or an assigned variable.
NewVars == {None} \cup {v \in Vars : is_assigned(asgn, v)}

Return(ok) ==
    /\ result' = (IF ok THEN "True" ELSE "False")
    /\ pc' = "done"

\* ----------------------------------------------------------------- prop_BT
\* vals as built from a constraint's scope: each variable's assigned value.
assigned_vals(a, c) == [i \in 1..Len(get_scope(c)) |-> a[get_scope(c)[i]]]

RECURSIVE BT_loop_eager(_, _)
\* prop_BT checking a constraint whether or not it is fully assigned.
BT_loop_eager(a, cs) ==
    IF cs = << >> THEN TRUE
    ELSE IF ~check(Head(cs), assigned_vals(a, Head(cs)))
         THEN FALSE
         ELSE BT_loop_eager(a, Tail(cs))

RECURSIVE BT_loop(_, _)
\* for c in cons: a fully assigned c that fails check returns False; the
\* end of the loop returns True.
BT_loop(a, cs) ==
    IF cs = << >> THEN TRUE
    ELSE IF get_n_unasgn(a, Head(cs)) = 0 /\ ~check(Head(cs), assigned_vals(a, Head(cs)))
         THEN FALSE
         ELSE BT_loop(a, Tail(cs))

\* prop_BT checking every constraint when there is no newVar.
BT_ok_all(a, nv) ==
    BT_loop(a, IF nv = None THEN get_all_cons ELSE get_cons_with_var(nv))

\* The success flag prop_BT returns.
BT_ok(a, nv) ==
    IF nv = None THEN TRUE ELSE BT_loop(a, get_cons_with_var(nv))

\* The prune list prop_BT returns, on every path.
BT_pruned(a, nv) == << >>

prop_BT(nv) ==
    /\ pc = "idle"
    /\ prop' = "BT"
    /\ newVar' = nv
    /\ Return(BT_ok(asgn, nv))
    /\ prune_lst' = BT_pruned(asgn, nv)
    /\ UNCHANGED <<csp, again, cons, curdom, asgn, que, curr, var, vi, pending,
                   vals, flag, pre>>

\* ----------------------------------------------------------------- prop_FC
\* prop_FC collecting from every constraint of the CSP, with newVar or not.
FC_lst_any(a, nv) ==
    IF nv = None
    THEN SelectSeq(get_all_cons, LAMBDA c : Len(get_scope(c)) = 1)
    ELSE SelectSeq(get_all_cons, LAMBDA c : get_n_unasgn(a, c) = 1)

\* lst as collected at the top of prop_FC: the unary constraints when newVar
\* is None, else the constraints with newVar that have one unassigned
\* variable.
FC_lst(a, nv) ==
    IF nv = None
    THEN SelectSeq(get_all_cons, LAMBDA c : Len(get_scope(c)) = 1)
    ELSE SelectSeq(get_cons_with_var(nv), LAMBDA c : get_n_unasgn(a, c) = 1)

prop_FC(nv) ==
    /\ pc = "idle"
    /\ prop' = "FC"
    /\ newVar' = nv
    /\ que' = FC_lst(asgn, nv)
    /\ flag' = FALSE
    /\ pc' = "fc_con"
    /\ UNCHANGED <<csp, again, cons, curdom, asgn, curr, var, vi, pending, vals,
                   prune_lst, result, pre>>

\* for con in lst: var = con.get_unasgn_vars()[0]; for val in var.cur_domain()
FC_NextCon ==
    /\ pc = "fc_con"
    /\ IF que = << >>
       THEN /\ Return(TRUE)
            /\ UNCHANGED <<que, curr, var, pending>>
       ELSE /\ curr' = Head(que)
            /\ que' = Tail(que)
            /\ IF get_unasgn_vars(asgn, Head(que)) = << >>
               THEN \* get_unasgn_vars()[0] raises IndexError
                    /\ pc' = "error"
                    /\ UNCHANGED <<var, pending, result>>
               ELSE /\ var' = get_unasgn_vars(asgn, Head(que))[1]
                    /\ pending' = cur_domain(curdom, var')
                    /\ pc' = "fc_val"
                    /\ UNCHANGED result
    /\ UNCHANGED <<csp, again, cons, curdom, asgn, prop, newVar, vi, vals, flag,
                   prune_lst, pre>>

\* var.assign(val); vals = the assigned values of con's scope
FC_Assign ==
    /\ pc = "fc_val"
    /\ pending # << >>
    /\ asgn' = assign(asgn, var, Head(pending))
    /\ vals' = assigned_vals(asgn', curr)
    /\ pc' = "fc_probe"
    /\ UNCHANGED <<csp, again, cons, curdom, prop, newVar, que, curr, var, vi,
                   pending, flag, prune_lst, result, pre>>

\* prop_FC recording a failed value without pruning it.
FC_prune_skipped(d, c, v, val, t) == d

\* prop_FC pruning every probed value, recorded or not.
FC_prune_always(d, c, v, val, t) == prune_value(d, v, val)

\* What a probed value does to the domains: pruned when check fails.
FC_prune(d, c, v, val, t) ==
    IF ~check(c, t) THEN prune_value(d, v, val) ELSE d

\* prop_FC leaving the probed variable assigned.
FC_unassign_skipped(a, v) == a

\* var.unassign() right after vals is built.
FC_unassign(a, v) == unassign(a, v)

\* var.unassign(); prune val and record it when check fails, else flag = True
FC_Probe ==
    /\ pc = "fc_probe"
    /\ asgn' = FC_unassign(asgn, var)
    /\ curdom' = FC_prune(curdom, curr, var, Head(pending), vals)
    /\ IF ~check(curr, vals)
       THEN /\ prune_lst' = Append(prune_lst, <<var, Head(pending)>>)
            /\ UNCHANGED flag
       ELSE /\ flag' = TRUE
            /\ UNCHANGED prune_lst
    /\ pending' = Tail(pending)
    /\ pc' = "fc_val"
    /\ UNCHANGED <<csp, again, cons, prop, newVar, que, curr, var, vi, vals,
                   result, pre>>

\* The verdict at the end of a constraint's pass: failure unless flag is set.
FC_dwo(f) == ~f

\* prop_FC carrying flag over to the next constraint's pass.
FC_reset_kept(f) == f

\* flag as left for the next constraint's pass.
FC_reset(f) == FALSE

\* if not flag: return (False, prune_lst) else: flag = False
FC_EndCon ==
    /\ pc = "fc_val"
    /\ pending = << >>
    /\ IF FC_dwo(flag)
       THEN /\ Return(FALSE)
            /\ UNCHANGED flag
       ELSE /\ flag' = FC_reset(flag)
            /\ pc' = "fc_con"
            /\ UNCHANGED result
    /\ UNCHANGED <<csp, again, cons, curdom, asgn, prop, newVar, que, curr, var,
                   vi, pending, vals, prune_lst, pre>>

RECURSIVE FC_pass(_, _, _, _, _)
\* for val in var.cur_domain(), over the values ps still to visit: the
\* domains after the pass, and flag, set once a value passes check.
FC_pass(d, a, c, v, ps) ==
    IF ps = << >> THEN [d |-> d, flag |-> FALSE]
    ELSE LET val  == Head(ps)
             t    == assigned_vals(assign(a, v, val), c)
             rest == FC_pass(FC_prune(d, c, v, val, t), a, c, v, Tail(ps))
         IN  [d |-> rest.d, flag |-> check(c, t) \/ rest.flag]

RECURSIVE FC_run(_, _, _)
\* for con in lst: a pass that leaves flag unset returns False, the end of
\* lst returns True; with the domains the call leaves.
FC_run(d, a, lst) ==
    IF lst = << >> THEN [ok |-> TRUE, d |-> d]
    ELSE LET c == Head(lst)
             v == get_unasgn_vars(a, c)[1]
             p == FC_pass(d, a, c, v, cur_domain(d, v))
         IN  IF FC_dwo(p.flag) THEN [ok |-> FALSE, d |-> p.d]
             ELSE FC_run(p.d, a, Tail(lst))

\* prop_FC(csp, nv) as one function of the state it is called in: the
\* success flag it returns and the current domains it leaves.
FC_result(d, a, nv) == FC_run(d, a, FC_lst(a, nv))

\* ---------------------------------------------------------------- prop_GAC
\* prop_GAC starting from the first constraint of the listing only.
GAC_que_one(nv) ==
    IF nv = None THEN SubSeq(get_all_cons, 1, 1)
    ELSE SubSeq(get_cons_with_var(nv), 1, 1)

\* que as initialised: all constraints, or those containing newVar.
GAC_que(nv) ==
    IF nv = None THEN get_all_cons ELSE get_cons_with_var(nv)

prop_GAC(nv) ==
    /\ pc = "idle"
    /\ prop' = "GAC"
    /\ newVar' = nv
    /\ que' = GAC_que(nv)
    /\ pc' = "gac_loop"
    /\ UNCHANGED <<csp, again, cons, curdom, asgn, curr, var, vi, pending, vals,
                   flag, prune_lst, result, pre>>

\* prop_GAC reading the head of que without removing it.
GAC_pop_kept(q) == q

\* que after curr = que.pop(0).
GAC_pop(q) == Tail(q)

\* while que != []: curr = que.pop(0); falling out of the loop returns True
GAC_Pop ==
    /\ pc = "gac_loop"
    /\ IF que = << >>
       THEN /\ Return(TRUE)
            /\ UNCHANGED <<que, curr, vi>>
       ELSE /\ curr' = Head(que)
            /\ que' = GAC_pop(que)
            /\ vi' = 1
            /\ pc' = "gac_var"
            /\ UNCHANGED result
    /\ cons' = CSP_cons_after(newVar, cons, que')
    /\ UNCHANGED <<csp, again, curdom, asgn, prop, newVar, var, pending, vals,
                   flag, prune_lst, pre>>

\* prop_GAC walking var.domain(), the initial domain.
GAC_values_initial(d, v) == SortedSeq(TheCSP.dom[v])

\* The values the inner loop visits: var.cur_domain() as the loop begins.
GAC_values(d, v) == cur_domain(d, v)

\* for var in curr.get_scope(): for val in var.cur_domain()
GAC_NextVar ==
    /\ pc = "gac_var"
    /\ IF vi > Len(get_scope(curr))
       THEN /\ pc' = "gac_loop"
            /\ UNCHANGED <<var, pending>>
       ELSE /\ var' = get_scope(curr)[vi]
            /\ pending' = GAC_values(curdom, var')
            /\ pc' = "gac_val"
    /\ UNCHANGED <<csp, again, cons, curdom, asgn, prop, newVar, que, curr, vi,
                   vals, flag, prune_lst, result, pre>>

\* prop_GAC appending the constraints that are in que, not those that are
\* not.
GAC_enqueue_inverted(q, v) ==
    q \o SelectSeq(get_cons_with_var(v), LAMBDA c : c \in Range(q))

\* prop_GAC appending every constraint with v, in que or not.
GAC_enqueue_all(q, v) == q \o get_cons_with_var(v)

\* prop_GAC leaving the worklist as it is after a prune.
GAC_enqueue_none(q, v) == q

\* The constraints appended after a prune of v: those with v not in que.
GAC_enqueue(q, v) ==
    q \o SelectSeq(get_cons_with_var(v), LAMBDA c : c \notin Range(q))

\* var.prune_value(val) of a value curr gives no support.
GAC_prune(d, v, val) == prune_value(d, v, val)

\* prop_GAC never noticing a wiped-out domain.
GAC_dwo_missed(d, v) == FALSE

\* Whether the prune just made is a domain wipe-out: var.cur_domain() == []
GAC_dwo(d, v) == d[v] = {}

\* One value of var: pruned and recorded when curr gives it no support;
\* then a DWO returns False, else the constraints with var are enqueued.
GAC_Val ==
    /\ pc = "gac_val"
    /\ IF pending = << >>
       THEN /\ vi' = vi + 1
            /\ pc' = "gac_var"
            /\ UNCHANGED <<curdom, prune_lst, que, pending, result>>
       ELSE /\ pending' = Tail(pending)
            /\ UNCHANGED vi
            /\ IF ~has_support(curdom, asgn, curr, var, Head(pending))
               THEN /\ curdom' = GAC_prune(curdom, var, Head(pending))
                    /\ prune_lst' = Append(prune_lst, <<var, Head(pending)>>)
                    /\ IF GAC_dwo(curdom', var)
                       THEN /\ Return(FALSE)
                            /\ UNCHANGED que
                       ELSE /\ que' = GAC_enqueue(que, var)
                            /\ UNCHANGED <<pc, result>>
               ELSE UNCHANGED <<curdom, prune_lst, que, pc, result>>
    /\ cons' = CSP_cons_after(newVar, cons, que')
    /\ UNCHANGED <<csp, again, asgn, prop, newVar, curr, var, vals, flag, pre>>

\* prop_GAC(csp) called again, with nothing done to the CSP since a call
\* with newVar None returned True: que = csp.get_all_cons(), prune_lst = [].
prop_GAC_again ==
    /\ pc = "done"
    /\ prop = "GAC"
    /\ newVar = None
    /\ result = "True"
    /\ again' = (IF prune_lst = << >> THEN "clean" ELSE "pruned")
    /\ que' = GAC_que(None)
    /\ prune_lst' = << >>
    /\ curr' = 0
    /\ var' = 0
    /\ vi' = 0
    /\ pending' = << >>
    /\ result' = "none"
    /\ pc' = "gac_loop"
    /\ pre' = [csp |-> csp, cons |-> cons, curdom |-> curdom, asgn |-> asgn]
    /\ UNCHANGED <<csp, cons, curdom, asgn, prop, newVar, vals, flag>>

\* ------------------------------------------------------------------ driver
RECURSIVE RestoreAll(_, _)
\* restore_value for every pair of a prune list, as on backtrack.
RestoreAll(d, pl) ==
    IF pl = << >> THEN d
    ELSE RestoreAll(restore_value(d, Head(pl)[1], Head(pl)[2]), Tail(pl))

Backtrack ==
    /\ pc = "done"
    /\ curdom' = RestoreAll(curdom, prune_lst)
    /\ pc' = "restored"
    /\ UNCHANGED <<csp, again, cons, asgn, prop, newVar, que, curr, var, vi,
                   pending, vals, flag, prune_lst, result, pre>>

Next ==
    \/ \E nv \in NewVars : prop_BT(nv)
    \/ \E nv \in NewVars : prop_FC(nv)
    \/ \E nv \in NewVars : prop_GAC(nv)
    \/ FC_NextCon
    \/ FC_Assign
    \/ FC_Probe
    \/ FC_EndCon
    \/ GAC_Pop
    \/ GAC_NextVar
    \/ GAC_Val
    \/ prop_GAC_again
    \/ Backtrack

Spec == Init /\ [][Next]_vars

\* A propagator call is synchronous: once prop_GAC is entered its loop runs
\* on until it returns.
GACStep == GAC_Pop \/ GAC_NextVar \/ GAC_Val

LiveSpec == Spec /\ WF_vars(GACStep)

\* ================================================================== claims
NoDup(s) == \A i, j \in 1..Len(s) : i < j => s[i] # s[j]

\* The (variable, value) pairs in a current domain when the call began and
\* not now.
Removed ==
    {p \in Vars \X (1..(MaxVal + 1)) :
        p[2] \in pre.curdom[p[1]] /\ p[2] \notin curdom[p[1]]}

Returned == pc = "done"

\* C1: the prune list a call of prop_BT, prop_FC or prop_GAC returns holds
\* no (variable, value) pair more than once.
C1_NoDoublePruning == Returned => NoDup(prune_lst)

\* A prop_GAC call that returned three prunes or more.
C1_Witness == Returned /\ prop = "GAC" /\ Len(prune_lst) >= 3

\* C2: the pairs of the returned prune list are exactly the pairs that left
\* a current domain during the call, and restoring each of them once gives
\* every variable its domain of before the call.
C2_PruneListIsTheChange ==
    /\ Returned =>
          /\ Range(prune_lst) = Removed
          /\ \A v \in Vars : curdom[v] \subseteq pre.curdom[v]
    /\ pc = "restored" => curdom = pre.curdom

\* A failed prop_FC call whose prunes were restored.
C2_Witness ==
    /\ pc = "restored" /\ prop = "FC" /\ result = "False"
    /\ Len(prune_lst) >= 2

\* Every value left in the current domain of every scope variable of c has
\* support under c.
Supported(d, a, c) ==
    \A i \in 1..Len(get_scope(c)) :
        \A x \in d[get_scope(c)[i]] : has_support(d, a, c, get_scope(c)[i], x)

AllCons == 1..Len(TheCSP.cons)

GACSucceeded == Returned /\ prop = "GAC" /\ result = "True"

\* The constraints the call had on its worklist: all of them when newVar is
\* None, else those with newVar or with a variable pruned during the call.
OnWorklist(c) ==
    \/ newVar = None
    \/ newVar \in Range(get_scope(c))
    \/ \E p \in Range(prune_lst) : p[1] \in Range(get_scope(c))

\* C3 as stated: after any successful prop_GAC call every value left in a
\* scope variable's current domain has support under every constraint.
C3_AllSupportedAfterGAC ==
    GACSucceeded => \A c \in AllCons : Supported(curdom, asgn, c)

\* C3 as amended: after a successful prop_GAC call every constraint that was
\* on the worklist, and every constraint that was supported before the
\* call, has support for every value left in its scope variables' domains.
C3_WorklistSupportedAfterGAC ==
    GACSucceeded =>
        \A c \in AllCons :
            (OnWorklist(c) \/ Supported(pre.curdom, pre.asgn, c))
                => Supported(curdom, asgn, c)

\* A successful prop_GAC call for a variable that pruned values and so
\* brought in a constraint without that variable.
C3_Witness ==
    /\ GACSucceeded /\ newVar # None
    /\ \E c \in AllCons :
          /\ newVar \notin Range(get_scope(c))
          /\ \E p \in Range(prune_lst) : p[1] \in Range(get_scope(c))

\* The scenario of C4: PairCSP with A = {1}, B = {3}, nothing assigned, and
\* prop_GAC called.
C4_Scenario ==
    /\ TheCSP = PairCSP /\ prop = "GAC"
    /\ pre.curdom = <<{1}, {3}>>
    /\ pre.asgn = <<None, None>>

\* C4 as stated: in that scenario prop_GAC prunes 3 from B, empties B's
\* current domain and returns failure.
C4_PrunesBAndFails ==
    (C4_Scenario /\ Returned) =>
        /\ result = "False"
        /\ <<2, 3>> \in Range(prune_lst)
        /\ curdom[2] = {}

\* C4 as amended: in that scenario prop_GAC returns failure on A, the first
\* variable of the scope: it prunes A's value 1, which has no support as 2
\* is not in B's domain, finds A's domain empty and returns [(A, 1)] with
\* B's domain untouched.
C4_PrunesAAndFails ==
    (C4_Scenario /\ Returned) =>
        /\ result = "False"
        /\ prune_lst = << <<1, 1>> >>
        /\ curdom = <<{}, {3}>>

C4_Witness == C4_Scenario /\ Returned

FCReturned == Returned /\ prop = "FC"

\* The scope of constraint c with variable u set to x and every other
\* variable at the value it was assigned when the call began.
ProbeTuple(c, u, x) ==
    [i \in 1..Len(TheCSP.cons[c].scope) |->
        IF TheCSP.cons[c].scope[i] = u THEN x
        ELSE pre.asgn[TheCSP.cons[c].scope[i]]]

\* The variables of c's scope that were unassigned when the call began.
UnassignedIn(c) == {v \in Range(TheCSP.cons[c].scope) : pre.asgn[v] = None}

\* The constraints with newVar that had exactly one unassigned variable.
AlmostComplete ==
    {c \in AllCons :
        newVar \in Range(TheCSP.cons[c].scope) /\ Cardinality(UnassignedIn(c)) = 1}

\* C5: after a successful prop_FC call for newVar, every value left in the
\* one unassigned variable of a constraint with newVar passes that
\* constraint's check together with the assigned values, and every pruned
\* pair fails the check of such a constraint.
C5_FCPrunesWhatFailsCheck ==
    (FCReturned /\ newVar # None /\ result = "True") =>
        /\ \A c \in AlmostComplete : \A u \in UnassignedIn(c) :
              \A x \in curdom[u] : ProbeTuple(c, u, x) \in TheCSP.cons[c].sat
        /\ \A p \in Range(prune_lst) :
              \E c \in AlmostComplete :
                  /\ p[1] \in UnassignedIn(c)
                  /\ ProbeTuple(c, p[1], p[2]) \notin TheCSP.cons[c].sat

\* The row of three cells with its first cell assigned 1: prop_FC prunes 1
\* from the second cell and succeeds with [(var2, 1)].
C5_Witness ==
    /\ FCReturned /\ TheCSP = RowCSP
    /\ newVar = 1 /\ asgn[1] = 1 /\ pre.curdom[2] = 1..MaxVal
    /\ result = "True" /\ prune_lst = << <<2, 1>> >>

\* The constraints prop_FC collected, and those whose pass it began.
Collected == FC_lst(pre.asgn, newVar)

Examined == SubSeq(Collected, 1, Len(Collected) - Len(que))

\* C6: prop_FC returns failure exactly when a collected constraint's pass
\* leaves no value of its unassigned variable; it returns at that
\* constraint, leaving the variables of later constraints alone, with all
\* prunes made so far; otherwise it returns success after every collected
\* constraint, each examined variable keeping a value.
C6_FCFailsAtFirstWipeout ==
    FCReturned =>
        /\ result = "False" =>
              /\ Examined # << >> /\ curr = Examined[Len(Examined)]
              /\ \A u \in UnassignedIn(curr) : curdom[u] = {}
              /\ \A i \in 1..(Len(Examined) - 1) :
                    \A u \in UnassignedIn(Examined[i]) :
                        curdom[u] # {} \/ u \in UnassignedIn(curr)
        /\ result = "True" =>
              /\ que = << >>
              /\ \A c \in Range(Collected) :
                    \A u \in UnassignedIn(c) : curdom[u] # {}
        /\ \A v \in Vars :
              (\A c \in Range(Examined) : v \notin UnassignedIn(c))
                  => curdom[v] = pre.curdom[v]
        /\ Range(prune_lst) = Removed

\* A prop_FC call that pruned, then failed with a constraint still waiting
\* whose variable had a value to prune.
C6_Witness ==
    /\ FCReturned /\ result = "False" /\ prune_lst # << >> /\ que # << >>
    /\ \E c \in Range(que) : \E u \in UnassignedIn(c) : \E x \in curdom[u] :
          /\ u \notin UnassignedIn(curr)
          /\ ProbeTuple(c, u, x) \notin TheCSP.cons[c].sat

BTReturned == Returned /\ prop = "BT"

\* The constraints with newVar whose scope is fully assigned and whose
\* assigned values, in scope order, are no satisfying tuple.
Violated ==
    {c \in AllCons :
        /\ newVar \in Range(TheCSP.cons[c].scope)
        /\ \A v \in Range(TheCSP.cons[c].scope) : asgn[v] # None
        /\ [i \in 1..Len(TheCSP.cons[c].scope) |-> asgn[TheCSP.cons[c].scope[i]]]
              \notin TheCSP.cons[c].sat}

\* C7: prop_BT called for newVar returns failure if and only if some fully
\* assigned constraint with newVar fails check on its assigned values.
C7_BTFailsIffViolated ==
    (BTReturned /\ newVar # None) => (result = "False" <=> Violated # {})

\* prop_BT failing for a variable that also lies in a constraint with an
\* unassigned variable.
C7_Witness ==
    /\ BTReturned /\ result = "False"
    /\ \E c \in AllCons :
          /\ newVar \in Range(TheCSP.cons[c].scope)
          /\ \E v \in Range(TheCSP.cons[c].scope) : asgn[v] = None

\* C8: prop_BT returns an empty prune list and leaves every current domain
\* and assigned value as it was; with no newVar it returns success.
C8_BTNeverPrunes ==
    BTReturned =>
        /\ prune_lst = << >>
        /\ curdom = pre.curdom
        /\ asgn = pre.asgn
        /\ newVar = None => result = "True"

\* prop_BT called without newVar on a CSP holding a fully assigned
\* constraint that its assigned values violate.
C8_Witness ==
    /\ BTReturned /\ newVar = None
    /\ \E c \in AllCons :
          /\ \A v \in Range(TheCSP.cons[c].scope) : asgn[v] # None
          /\ ~check(c, assigned_vals(asgn, c))

\* The scenario of C9: a 2x2 grid model as built, cell(0,0) assigned 1 and
\* prop_GAC called with that cell.
C9_Scenario ==
    /\ TheCSP \in {warehouse_binary_ne_grid(2), warehouse_nary_ad_grid(2)}
    /\ prop = "GAC" /\ newVar = Cell(2, 0, 0)
    /\ pre.curdom = init_board(2)
    /\ pre.asgn = [v \in 1..4 |-> IF v = Cell(2, 0, 0) THEN 1 ELSE None]

\* C9: in that scenario prop_GAC succeeds, leaving {2} to cell(0,1) and
\* cell(1,0) and {1} to cell(1,1).
C9_GridPropagation ==
    (C9_Scenario /\ Returned) =>
        /\ result = "True"
        /\ curdom[Cell(2, 0, 1)] = {2}
        /\ curdom[Cell(2, 1, 0)] = {2}
        /\ curdom[Cell(2, 1, 1)] = {1}

C9_Witness ==
    C9_Scenario /\ Returned /\ TheCSP = warehouse_nary_ad_grid(2)

GACRunning == pc \in {"gac_loop", "gac_var", "gac_val"}

\* C10: every prop_GAC call terminates: from any state it is entered in,
\* the worklist loop comes to a return, success or failure.
C10_GACTerminates == GACRunning ~> Returned

\* A prop_GAC call that returned although it began with a fully assigned
\* constraint that the assigned values violate.
C10_Witness ==
    /\ Returned /\ prop = "GAC"
    /\ \E c \in AllCons :
          /\ \A v \in Range(TheCSP.cons[c].scope) : pre.asgn[v] # None
          /\ ~check(c, assigned_vals(pre.asgn, c))

\* C11: prop_FC leaves every variable's assigned state as it found it: the
\* one variable it assigns is unassigned again before the next value is
\* probed and before the call ends, and assign is only called on a variable
\* that is unassigned, with a value of its current domain.
C11_FCKeepsAssignments ==
    /\ (prop = "FC" /\ pc \in {"fc_con", "fc_val", "done", "error"})
          => asgn = pre.asgn
    /\ (prop = "FC" /\ pc = "fc_probe")
          => asgn = assign(pre.asgn, var, Head(pending))
    /\ (prop = "FC" /\ pc = "fc_val" /\ pending # << >>)
          => asgn[var] = None /\ Head(pending) \in curdom[var]

\* A prop_FC call that returned after probing values of two constraints.
C11_Witness ==
    /\ FCReturned /\ vals # << >> /\ Len(Examined) >= 2
    /\ \E v \in Vars : asgn[v] # None

PrunedNoWipeout ==
    GAC_Val /\ prune_lst' # prune_lst /\ ~GAC_dwo(curdom', var)

\* C13: right after prop_GAC prunes a value of X without emptying X's
\* domain every constraint with X in its scope is in the worklist, the one
\* being processed included; and the call returns success only once the
\* worklist is empty, so each of them is processed again first.
C13_ConstraintsOfPrunedVarQueued ==
    /\ [][PrunedNoWipeout =>
            /\ curr \in Range(que')
            /\ \A c \in AllCons :
                  var \in Range(get_scope(c)) => c \in Range(que')]_vars
    /\ [](GACSucceeded => que = << >>)

\* Right after such a prune: the constraint being processed, popped
\* before, is at the end of the worklist again.
C13_Witness ==
    /\ prop = "GAC" /\ pc = "gac_val" /\ prune_lst # << >>
    /\ prune_lst[Len(prune_lst)][1] = var
    /\ que # << >> /\ que[Len(que)] = curr
    /\ Len(que) >= 2

\* C14: the worklist of prop_GAC never holds a constraint twice, and it is
\* a queue: a step either leaves it, or removes its head as the constraint
\* to process, or appends to its end.
C14_WorklistIsADuplicateFreeQueue ==
    /\ [](prop = "GAC" => NoDup(que))
    /\ [][(prop = "GAC" /\ prop' = "GAC") =>
            \/ que' = que
            \/ que # << >> /\ que' = Tail(que) /\ curr' = Head(que)
            \/ Len(que') > Len(que) /\ SubSeq(que', 1, Len(que)) = que]_vars

\* A worklist to which a prune appended two constraints behind one that
\* was waiting.
C14_Witness ==
    /\ prop = "GAC" /\ pc = "gac_val" /\ prune_lst # << >>
    /\ Len(que) >= 3

GACReturned == Returned /\ prop = "GAC"

\* C15: prop_GAC returns failure if and only if a prune of the call emptied
\* a current domain; it returns at that prune, so the last returned pair is
\* the last value of the emptied domain and no other domain is empty; on
\* success every current domain holds a value.
C15_GACFailsAtTheWipeout ==
    GACReturned =>
        /\ result = "False" <=>
              \E v \in Vars : pre.curdom[v] # {} /\ curdom[v] = {}
        /\ result = "False" =>
              /\ prune_lst # << >>
              /\ curdom[prune_lst[Len(prune_lst)][1]] = {}
              /\ \A v \in Vars \ {prune_lst[Len(prune_lst)][1]} : curdom[v] # {}
        /\ result = "True" => \A v \in Vars : curdom[v] # {}

\* A prop_GAC call that pruned from two variables before a prune emptied a
\* domain.
C15_Witness ==
    /\ GACReturned /\ result = "False"
    /\ \E i, j \in 1..Len(prune_lst) : prune_lst[i][1] # prune_lst[j][1]

\* The states in which a propagator is inside its loop over the values of
\* var, the values in pending being those it may yet prune.
InValueLoop ==
    \/ prop = "GAC" /\ pc = "gac_val"
    \/ prop = "FC" /\ pc \in {"fc_val", "fc_probe"}

\* C16: every value prop_FC or prop_GAC may call prune_value on is in the
\* variable's current domain at that moment and has not been pruned by the
\* call before, also for an assigned variable whose assigned value has no
\* support.
C16_PruneOnlyPresentValues ==
    InValueLoop =>
        \A x \in Range(pending) :
            x \in curdom[var] /\ <<var, x>> \notin Range(prune_lst)

\* prop_GAC visiting again an assigned variable whose assigned value it
\* has pruned for want of support.
C16_Witness ==
    /\ prop = "GAC" /\ pc = "gac_val" /\ pending # << >>
    /\ asgn[var] # None
    /\ <<var, asgn[var]>> \in Range(prune_lst)

\* Constraints i of a CSP's list that bear the same name as an earlier one.
NameClashes(cs) ==
    {i \in 1..Len(cs) : \E j \in 1..(i - 1) : cs[j].name = cs[i].name}

\* The unordered pairs of distinct cells of an n x n board that share a row
\* or a column.
LinePairs(n) ==
    LET I == 0..(n - 1)
    IN  {{Cell(n, q[1], q[2]), Cell(n, q[3], q[4])} :
            q \in {p \in I \X I \X I \X I :
                      \/ p[1] = p[3] /\ p[2] # p[4]
                      \/ p[2] = p[4] /\ p[1] # p[3]}}

\* The binary grid model holds one not-equal constraint for each such pair
\* and no other constraint.
OnePerLinePair(n) ==
    LET cs == warehouse_binary_ne_grid(n).cons
    IN  /\ \A i \in 1..Len(cs) :
              /\ Range(cs[i].scope) \in LinePairs(n)
              /\ cs[i].sat = {t \in (1..n) \X (1..n) : t[1] # t[2]}
        /\ \A pr \in LinePairs(n) :
              Cardinality({i \in 1..Len(cs) : Range(cs[i].scope) = pr}) = 1

\* C17: the model warehouse_binary_ne_grid builds never holds two
\* constraints of the same name, and holds exactly one binary not-equal
\* constraint for each pair of distinct cells sharing a row or a column.
C17_GridNamesUniqueOnePerPair ==
    TheCSP = warehouse_binary_ne_grid(2) =>
        /\ NameClashes(TheCSP.cons) = {}
        /\ OnePerLinePair(2)

\* A call that repeats prop_GAC after a successful call with newVar None.
Repeated == prop = "GAC" /\ again # "no"

\* C18: prop_GAC is idempotent at its fixed point: called again on the same
\* CSP after a call with newVar None returned success, with no change in
\* between, it returns success with an empty prune list, and no domain
\* changes at any point of the second call.
C18_GACIdempotent ==
    /\ Repeated => prune_lst = << >> /\ curdom = pre.curdom /\ result # "False"
    /\ (Repeated /\ Returned) =>
          /\ result = "True"
          /\ que = << >>
          /\ asgn = pre.asgn

\* A second call has returned, after a first call that pruned, on a CSP
\* with a variable left unassigned.
C18_Witness ==
    /\ Repeated
    /\ Returned
    /\ again = "pruned"
    /\ \E v \in Vars : asgn[v] = None /\ curdom[v] # TheCSP.dom[v]

\* What prop_FC would have returned, called where this call was.
FCFromHere == FC_result(pre.curdom, pre.asgn, newVar)

\* C19: GAC prunes at least as much as FC.  From the same CSP state and
\* with the same newly assigned variable, when prop_FC fails prop_GAC fails,
\* and when both succeed every current domain prop_GAC leaves is within the
\* one prop_FC leaves.  (The first conjunct ties FC_result to prop_FC as it
\* runs step by step.)
C19_GACPrunesAtLeastAsFC ==
    /\ FCReturned =>
          /\ result = (IF FCFromHere.ok THEN "True" ELSE "False")
          /\ curdom = FCFromHere.d
    /\ (GACReturned /\ newVar # None) =>
          /\ ~FCFromHere.ok => result = "False"
          /\ (FCFromHere.ok /\ result = "True") =>
                \A v \in Vars : curdom[v] \subseteq FCFromHere.d[v]

\* prop_GAC has succeeded where prop_FC succeeds too and prunes something,
\* and has left some domain strictly smaller than prop_FC does.
C19_Witness ==
    /\ GACReturned
    /\ newVar # None
    /\ result = "True"
    /\ FCFromHere.ok
    /\ FCFromHere.d # pre.curdom
    /\ \E v \in Vars : curdom[v] # FCFromHere.d[v]

====
